---- MODULE Spec2Model ----
(***************************************************************************)
(* seqbytes: fixed-width numeric codecs (SizedNumber / EndianNumber,       *)
(* src/src/traits.rs) and the sequential readers built on any Read + Seek  *)
(* byte source (SeqByteReader / ESeqByteReader, src/src/bytes.rs).         *)
(*                                                                         *)
(* Representation.  A byte is an integer 0..255, a byte run a sequence of  *)
(* bytes.  Option<T> is a sequence of length 0 (None) or 1 (Some(x)).      *)
(* An integer value is the mathematical integer it denotes, written in     *)
(* sign and magnitude: [neg, mag] with mag the base-256 digits of |x|,     *)
(* most significant digit first, padded to the width of the type (values   *)
(* up to 128 bits do not fit the 32-bit integers of TLC).  A float         *)
(* is its IEEE-754 bit pattern [bits], most significant byte first; float  *)
(* comparison follows IEEE-754 (eq below).                                 *)
(***************************************************************************)
EXTENDS Integers, Sequences, FiniteSets, TLC

VARIABLES
    src,       \* the content of the byte source (never written by the readers)
    pos,       \* the cursor position of the byte source
    hist,      \* the most recent reader calls (at most two), oldest first
    panicked,  \* TRUE once a call has panicked (Result::unwrap on an Err)
    faulty,    \* TRUE for a source whose seek can fail with an I/O error
    codec      \* the codec calls made on one input

vars == <<src, pos, hist, panicked, faulty, codec>>

-----------------------------------------------------------------------------
(* Bounds of the model *)

\* the largest `amount` handed to next_slice / shift_slice / *_string
MaxAmount == 5

\* byte runs handed to the codecs have length size()-ExtraLen .. size()+ExtraLen
ExtraLen == 1

\* byte values the codec inputs are built from
SampleBytes == {0, 1, 127, 128, 255}

-----------------------------------------------------------------------------
(* Option<T> *)

None == <<>>

Some(x) == <<x>>

IsSome(o) == Len(o) = 1

-----------------------------------------------------------------------------
(* The closed set of value types and their widths *)

Types == {"u8", "i8", "u16", "i16", "u32", "i32", "f32",
          "u64", "i64", "f64", "u128", "i128"}

IsSigned(ty) == ty \in {"i8", "i16", "i32", "i64", "i128"}

IsFloat(ty) == ty \in {"f32", "f64"}

size(ty) ==
    CASE ty \in {"u8", "i8"} -> 1
      [] ty \in {"u16", "i16"} -> 2
      [] ty \in {"u32", "i32", "f32"} -> 4
      [] ty \in {"u64", "i64", "f64"} -> 8
      [] ty \in {"u128", "i128"} -> 16

-----------------------------------------------------------------------------
(* Arithmetic on base-256 digit strings (most significant digit first) *)

Reverse(s) == [i \in 1..Len(s) |-> s[Len(s) + 1 - i]]

RECURSIVE AddOne(_)
\* d + 1 modulo 256^Len(d)
AddOne(d) ==
    IF Len(d) = 0 THEN <<>>
    ELSE IF d[Len(d)] < 255
         THEN Append(SubSeq(d, 1, Len(d) - 1), d[Len(d)] + 1)
    ELSE Append(AddOne(SubSeq(d, 1, Len(d) - 1)), 0)

\* two's complement: 256^Len(d) - d modulo 256^Len(d)
Negate(d) == AddOne([i \in 1..Len(d) |-> 255 - d[i]])

RECURSIVE ToInt(_, _)
\* the integer denoted by digits d with the sign s (1 or -1); for widths <= 4
ToInt(s, d) ==
    IF Len(d) = 0 THEN 0
    ELSE 256 * ToInt(s, SubSeq(d, 1, Len(d) - 1)) + s * d[Len(d)]

\* the machine integer of an integer value of at most 32 bits
IntOf(v) == ToInt(IF v.neg THEN -1 ELSE 1, v.mag)

-----------------------------------------------------------------------------
(* The primitive conversions of the standard library used by traits.rs *)

\* Self::from_be_bytes(arr): arr[1] is the most significant byte
from_be_bytes(ty, arr) ==
    IF IsFloat(ty) THEN [bits |-> arr]
    ELSE IF IsSigned(ty) /\ arr[1] >= 128
         THEN [neg |-> TRUE, mag |-> Negate(arr)]
         ELSE [neg |-> FALSE, mag |-> arr]

\* Self::from_le_bytes(arr): arr[1] is the least significant byte
from_le_bytes(ty, arr) ==
    IF IsFloat(ty) THEN [bits |-> Reverse(arr)]
    ELSE IF IsSigned(ty) /\ arr[Len(arr)] >= 128
         THEN [neg |-> TRUE, mag |-> Negate(Reverse(arr))]
         ELSE [neg |-> FALSE, mag |-> Reverse(arr)]

\* self.to_be_bytes()
to_be_bytes(ty, v) ==
    IF IsFloat(ty) THEN v.bits
    ELSE IF v.neg THEN Negate(v.mag) ELSE v.mag

\* self.to_le_bytes()
to_le_bytes(ty, v) == Reverse(to_be_bytes(ty, v))

\* `b as i8` for a byte b
AsI8(b) ==
    IF b >= 128 THEN [neg |-> TRUE, mag |-> <<256 - b>>]
    ELSE [neg |-> FALSE, mag |-> <<b>>]

\* `x as u8` for an i8 x
AsU8(v) == IF v.neg THEN 256 - v.mag[1] ELSE v.mag[1]

-----------------------------------------------------------------------------
(* PartialEq on the value types, as assert_eq! compares them *)

\* the digits of bits from index i on are all zero
TailZero(bits, i) == \A k \in i..Len(bits) : bits[k] = 0

IsNaN(ty, v) ==
    CASE ty = "f32" ->
           /\ (v.bits[1] % 128) * 2 + (v.bits[2] \div 128) = 255
           /\ ~(v.bits[2] % 128 = 0 /\ TailZero(v.bits, 3))
      [] ty = "f64" ->
           /\ (v.bits[1] % 128) * 16 + (v.bits[2] \div 16) = 2047
           /\ ~(v.bits[2] % 16 = 0 /\ TailZero(v.bits, 3))
      [] OTHER -> FALSE

IsZeroFloat(v) == v.bits[1] % 128 = 0 /\ TailZero(v.bits, 2)

\* a == b for two values of type ty
eq(ty, a, b) ==
    IF IsFloat(ty)
    THEN /\ ~IsNaN(ty, a)
         /\ ~IsNaN(ty, b)
         /\ (a.bits = b.bits \/ (IsZeroFloat(a) /\ IsZeroFloat(b)))
    ELSE a = b

\* x == y for two Option<ty>
opt_eq(ty, x, y) ==
    /\ Len(x) = Len(y)
    /\ IsSome(x) => eq(ty, x[1], y[1])

-----------------------------------------------------------------------------
(* SizedNumber and EndianNumber, traits.rs *)

\* from_bytes with the byte order mistaken: from_be_bytes for from_le_bytes
from_bytes_big(ty, bytes) ==
    IF Len(bytes) # size(ty) THEN None
    ELSE CASE ty = "u8" -> Some([neg |-> FALSE, mag |-> <<bytes[1]>>])
           [] ty = "i8" -> Some(AsI8(bytes[1]))
           [] OTHER -> Some(from_be_bytes(ty, bytes))

\* <ty as SizedNumber>::from_bytes(bytes)
from_bytes(ty, bytes) ==
    IF Len(bytes) # size(ty) THEN None
    ELSE CASE ty = "u8" -> Some([neg |-> FALSE, mag |-> <<bytes[1]>>])
           [] ty = "i8" -> Some(AsI8(bytes[1]))
           [] OTHER -> Some(from_le_bytes(ty, bytes))

\* to_bytes that narrows a 128-bit value to 64 bits first (`as u64`): only
\* the low eight bytes are written
to_bytes_narrowing(ty, v) ==
    CASE ty = "u8" -> <<v.mag[1]>>
      [] ty = "i8" -> <<AsU8(v)>>
      [] ty \in {"u128", "i128"} -> SubSeq(to_le_bytes(ty, v), 1, 8)
      [] OTHER -> to_le_bytes(ty, v)

\* to_bytes with the byte order mistaken: to_be_bytes for to_le_bytes
to_bytes_big(ty, v) ==
    CASE ty = "u8" -> <<v.mag[1]>>
      [] ty = "i8" -> <<AsU8(v)>>
      [] OTHER -> to_be_bytes(ty, v)

\* <ty as SizedNumber>::to_bytes(&v)
to_bytes(ty, v) ==
    CASE ty = "u8" -> <<v.mag[1]>>
      [] ty = "i8" -> <<AsU8(v)>>
      [] OTHER -> to_le_bytes(ty, v)

\* from_bytes_e with the flag read the wrong way round
from_bytes_e_flag_inverted(ty, bytes, bigendian) ==
    IF ty \in {"u8", "i8"} THEN from_bytes(ty, bytes)
    ELSE IF Len(bytes) # size(ty) THEN None
    ELSE IF bigendian THEN Some(from_le_bytes(ty, bytes))
    ELSE Some(from_be_bytes(ty, bytes))

\* from_bytes_e without the length check: the run is cut or zero-padded
from_bytes_e_padding(ty, bytes, bigendian) ==
    LET w == size(ty)
        run == IF Len(bytes) >= w THEN SubSeq(bytes, 1, w)
               ELSE bytes \o [i \in 1..(w - Len(bytes)) |-> 0]
    IN  IF ty \in {"u8", "i8"} THEN from_bytes(ty, run)
        ELSE IF bigendian THEN Some(from_be_bytes(ty, run))
        ELSE Some(from_le_bytes(ty, run))

\* <ty as EndianNumber>::from_bytes_e(bytes, bigendian)
from_bytes_e(ty, bytes, bigendian) ==
    IF ty \in {"u8", "i8"} THEN from_bytes(ty, bytes)
    ELSE IF Len(bytes) # size(ty) THEN None
    ELSE IF bigendian THEN Some(from_be_bytes(ty, bytes))
    ELSE Some(from_le_bytes(ty, bytes))

\* to_bytes_e of the one-byte types with the `as u8` cast lost when bigendian:
\* the magnitude is written instead of the two's complement
to_bytes_e_uncast(ty, v, bigendian) ==
    IF ty \in {"u8", "i8"}
    THEN (IF bigendian THEN <<v.mag[1]>> ELSE to_bytes(ty, v))
    ELSE IF bigendian THEN to_be_bytes(ty, v)
    ELSE to_le_bytes(ty, v)

\* <ty as EndianNumber>::to_bytes_e(&v, bigendian)
to_bytes_e(ty, v, bigendian) ==
    IF ty \in {"u8", "i8"} THEN to_bytes(ty, v)
    ELSE IF bigendian THEN to_be_bytes(ty, v)
    ELSE to_le_bytes(ty, v)

-----------------------------------------------------------------------------
(* The codec calls on one input: decode a byte run, encode the decoded     *)
(* value, decode what was encoded.  A behaviour is either such a series of *)
(* codec calls (codec.step is not "idle", the reader variables rest) or a  *)
(* series of reader calls on a source (codec.step is "idle").              *)

\* a run of length len: first byte a, last byte c, every byte between b
Pattern(len, a, b, c) ==
    [i \in 1..len |-> IF i = 1 THEN a ELSE IF i = len THEN c ELSE b]

\* the byte runs of the documentation: the i32 example, the short run,
\* and 22.4f64.to_bytes()
DocRuns == {<<69, 96, 255, 255>>, <<2, 4, 6>>,
            <<102, 102, 102, 102, 102, 102, 54, 64>>}

Runs(ty) ==
    { Pattern(n, a, b, c) :
        n \in {k \in (size(ty) - ExtraLen)..(size(ty) + ExtraLen) : k >= 0},
        a \in SampleBytes, b \in SampleBytes, c \in SampleBytes }
    \cup DocRuns

CodecIdle ==
    [step |-> "idle", ty |-> "u8", bytes |-> <<>>, be |-> FALSE,
     dec |-> None, dec_e |-> [f \in BOOLEAN |-> None], val |-> None,
     enc |-> <<>>, enc_e |-> [f \in BOOLEAN |-> <<>>],
     back |-> None, back_e |-> [f \in BOOLEAN |-> None]]

ReaderIdle ==
    /\ src = <<>>
    /\ pos = 0
    /\ hist = <<>>
    /\ panicked = FALSE
    /\ faulty = FALSE

InitCodec ==
    /\ ReaderIdle
    /\ \E ty \in Types : \E bytes \in Runs(ty) : \E be \in BOOLEAN :
         codec = [CodecIdle EXCEPT !.step = "input", !.ty = ty,
                                   !.bytes = bytes, !.be = be]

\* U::from_bytes(bytes) and U::from_bytes_e(bytes, f) for both flags
Decode ==
    /\ codec.step = "input"
    /\ codec' = [codec EXCEPT
                   !.step = "decoded",
                   !.dec = from_bytes(codec.ty, codec.bytes),
                   !.dec_e = [f \in BOOLEAN |->
                                from_bytes_e(codec.ty, codec.bytes, f)]]
    /\ UNCHANGED <<src, pos, hist, panicked, faulty>>

\* v.to_bytes() and v.to_bytes_e(f) for the value v decoded with flag be
Encode ==
    /\ codec.step = "decoded"
    /\ IsSome(codec.dec_e[codec.be])
    /\ LET v == codec.dec_e[codec.be][1]
       IN  codec' = [codec EXCEPT
                       !.step = "encoded",
                       !.val = Some(v),
                       !.enc = to_bytes(codec.ty, v),
                       !.enc_e = [f \in BOOLEAN |->
                                    to_bytes_e(codec.ty, v, f)]]
    /\ UNCHANGED <<src, pos, hist, panicked, faulty>>

\* U::from_bytes(&v.to_bytes()) and U::from_bytes_e(&v.to_bytes_e(f), f)
Redecode ==
    /\ codec.step = "encoded"
    /\ codec' = [codec EXCEPT
                   !.step = "done",
                   !.back = from_bytes(codec.ty, codec.enc),
                   !.back_e = [f \in BOOLEAN |->
                                 from_bytes_e(codec.ty, codec.enc_e[f], f)]]
    /\ UNCHANGED <<src, pos, hist, panicked, faulty>>

-----------------------------------------------------------------------------
(* String::from_utf8_lossy, used by next_string / shift_string.            *)
(* A String is the sequence of its code points.                            *)

\* U+FFFD REPLACEMENT CHARACTER
REPLACEMENT_CHARACTER == 65533

\* a UTF-8 continuation byte
IsCont(b) == b >= 128 /\ b <= 191

\* s[i], or 0 past the end
SafeGet(s, i) == IF i <= Len(s) THEN s[i] ELSE 0

\* the valid second bytes of a three-byte sequence that starts with b1
Second3(b1, b2) ==
    \/ b1 = 224 /\ b2 >= 160 /\ b2 <= 191
    \/ b1 >= 225 /\ b1 <= 236 /\ IsCont(b2)
    \/ b1 = 237 /\ b2 >= 128 /\ b2 <= 159
    \/ b1 >= 238 /\ b1 <= 239 /\ IsCont(b2)

\* the valid second bytes of a four-byte sequence that starts with b1
Second4(b1, b2) ==
    \/ b1 = 240 /\ b2 >= 144 /\ b2 <= 191
    \/ b1 >= 241 /\ b1 <= 243 /\ IsCont(b2)
    \/ b1 = 244 /\ b2 >= 128 /\ b2 <= 143

\* <<bytes taken, code point>> for the first character or invalid run of s
Utf8Step(s) ==
    LET b1 == s[1]
        b2 == SafeGet(s, 2)
        b3 == SafeGet(s, 3)
        b4 == SafeGet(s, 4)
    IN  IF b1 < 128 THEN <<1, b1>>
        ELSE IF b1 >= 194 /\ b1 <= 223 THEN
            IF IsCont(b2) THEN <<2, (b1 - 192) * 64 + (b2 - 128)>>
            ELSE <<1, REPLACEMENT_CHARACTER>>
        ELSE IF b1 >= 224 /\ b1 <= 239 THEN
            IF ~Second3(b1, b2) THEN <<1, REPLACEMENT_CHARACTER>>
            ELSE IF ~IsCont(b3) THEN <<2, REPLACEMENT_CHARACTER>>
            ELSE <<3, (b1 - 224) * 4096 + (b2 - 128) * 64 + (b3 - 128)>>
        ELSE IF b1 >= 240 /\ b1 <= 244 THEN
            IF ~Second4(b1, b2) THEN <<1, REPLACEMENT_CHARACTER>>
            ELSE IF ~IsCont(b3) THEN <<2, REPLACEMENT_CHARACTER>>
            ELSE IF ~IsCont(b4) THEN <<3, REPLACEMENT_CHARACTER>>
            ELSE <<4, (b1 - 240) * 262144 + (b2 - 128) * 4096
                      + (b3 - 128) * 64 + (b4 - 128)>>
        ELSE <<1, REPLACEMENT_CHARACTER>>

RECURSIVE from_utf8_lossy(_)
\* String::from_utf8_lossy(&slice).to_string()
from_utf8_lossy(s) ==
    IF Len(s) = 0 THEN <<>>
    ELSE LET st == Utf8Step(s)
         IN  <<st[2]>> \o from_utf8_lossy(SubSeq(s, st[1] + 1, Len(s)))

-----------------------------------------------------------------------------
(* The byte source: any T: Read + Seek.                                    *)

\* the byte run of the crate's examples: -40891i32 then "hello"
DocSource == <<69, 96, 255, 255, 104, 101, 108, 108, 111>>

\* 16 bytes: an f32 NaN, then text with two invalid bytes, then small bytes
WideSource == <<0, 0, 192, 127, 195, 169, 255, 128,
                226, 130, 172, 1, 2, 3, 4, 5>>

Sources == {DocSource, <<69, 96, 255, 255>>, <<2, 4, 6>>, WideSource}

\* self.read_exact(&mut a) with a.len() = n, from position p of content s.
\* Enough bytes left: the buffer is filled and the cursor is n further.
\* Otherwise Err, and Read::read_exact leaves unspecified how much was
\* read: the cursor is where it was (std::io::Cursor before Rust 1.80) or
\* at the end of the source (the default read_exact loop; Cursor since).
read_exact(s, p, n) ==
    IF p + n <= Len(s)
    THEN {[ok |-> TRUE, buf |-> SubSeq(s, p + 1, p + n), pos |-> p + n]}
    ELSE {[ok |-> FALSE, buf |-> <<>>, pos |-> q] : q \in {p, Len(s)}}

\* self.seek(SeekFrom::Current(delta)) from position p: Ok, or on a source
\* whose seek can fail, Err with the cursor left where it was
seek(p, delta, canFail) ==
    {[ok |-> TRUE, pos |-> p + delta]}
    \cup (IF canFail THEN {[ok |-> FALSE, pos |-> p]} ELSE {})

-----------------------------------------------------------------------------
(* SeqByteReader and ESeqByteReader, bytes.rs                              *)

\* what a call returned: a value, None, or nothing at all (it panicked)
Returned(res) == [panic |-> FALSE, res |-> res]

Panicked == [panic |-> TRUE, res |-> None]

\* a finished call: what was called, the cursor before and after, its outcome
Call(op, ty, be, n, after, out) ==
    [op |-> op, ty |-> ty, be |-> be, n |-> n,
     before |-> pos, after |-> after, out |-> out]

\* a reader call can be made: the process has not panicked, the window on
\* the history has room for it (see Forget), and the behaviour is one of
\* reader calls
Ready == ~panicked /\ Len(hist) < 2 /\ codec.step = "idle"

\* the cursor moves to `after` and the call joins the history
Finish(c) ==
    /\ pos' = c.after
    /\ panicked' = c.out.panic
    /\ hist' = Append(hist, c)
    /\ UNCHANGED <<src, faulty, codec>>

\* The history is a window on the two most recent calls: before a third
\* call is recorded the oldest one leaves it.  Nothing of the program moves.
Forget ==
    /\ Len(hist) = 2
    /\ hist' = Tail(hist)
    /\ UNCHANGED <<src, pos, panicked, faulty, codec>>

\* the body shared by the four peeks: read n bytes, then seek back.
\* got is Some(the bytes read), or None when read_exact failed (`.ok()?`)
PeekReads(n) ==
    UNION { IF ~r.ok THEN {[after |-> r.pos, panic |-> FALSE, got |-> None]}
            ELSE { IF k.ok
                   THEN [after |-> k.pos, panic |-> FALSE, got |-> Some(r.buf)]
                   ELSE [after |-> k.pos, panic |-> TRUE, got |-> None]
                   : k \in seek(r.pos, -n, faulty) }
            : r \in read_exact(src, pos, n) }

\* the body shared by the four consumes: read n bytes
ConsumeReads(n) ==
    { IF ~r.ok THEN [after |-> r.pos, panic |-> FALSE, got |-> None]
      ELSE [after |-> r.pos, panic |-> FALSE, got |-> Some(r.buf)]
      : r \in read_exact(src, pos, n) }

\* next without the seek that restores the cursor
next_not_restoring(ty) ==
    /\ Ready
    /\ \E o \in ConsumeReads(size(ty)) :
          Finish(Call("next", ty, FALSE, size(ty), o.after,
                      IF o.panic THEN Panicked
                      ELSE IF IsSome(o.got) THEN Returned(from_bytes(ty, o.got[1]))
                      ELSE Returned(None)))

\* fn next<U: SizedNumber>(&mut self) -> Option<U>
next(ty) ==
    /\ Ready
    /\ \E o \in PeekReads(size(ty)) :
          Finish(Call("next", ty, FALSE, size(ty), o.after,
                      IF o.panic THEN Panicked
                      ELSE IF IsSome(o.got) THEN Returned(from_bytes(ty, o.got[1]))
                      ELSE Returned(None)))

\* fn shift<U: SizedNumber>(&mut self) -> Option<U>
shift(ty) ==
    /\ Ready
    /\ \E o \in ConsumeReads(size(ty)) :
          Finish(Call("shift", ty, FALSE, size(ty), o.after,
                      IF o.panic THEN Panicked
                      ELSE IF IsSome(o.got) THEN Returned(from_bytes(ty, o.got[1]))
                      ELSE Returned(None)))

\* fn next_slice(&mut self, amount: usize) -> Option<Vec<u8>>
next_slice(amount) ==
    /\ Ready
    /\ \E o \in PeekReads(amount) :
          Finish(Call("next_slice", "bytes", FALSE, amount, o.after,
                      IF o.panic THEN Panicked
                      ELSE IF IsSome(o.got) THEN Returned(Some(o.got[1]))
                      ELSE Returned(None)))

\* fn shift_slice(&mut self, amount: usize) -> Option<Vec<u8>>
shift_slice(amount) ==
    /\ Ready
    /\ \E o \in ConsumeReads(amount) :
          Finish(Call("shift_slice", "bytes", FALSE, amount, o.after,
                      IF o.panic THEN Panicked
                      ELSE IF IsSome(o.got) THEN Returned(Some(o.got[1]))
                      ELSE Returned(None)))

RECURSIVE Utf8Valid(_)
\* s is well-formed UTF-8: no step of the lossy conversion replaces anything
\* (the bytes 239 191 189 are U+FFFD itself, properly encoded)
Utf8Valid(s) ==
    IF Len(s) = 0 THEN TRUE
    ELSE LET st == Utf8Step(s)
         IN  /\ st[2] = REPLACEMENT_CHARACTER => st[1] = 3
             /\ Utf8Valid(SubSeq(s, st[1] + 1, Len(s)))

\* next_string with the strict conversion: String::from_utf8(slice).ok()
next_string_strict(amount) ==
    /\ Ready
    /\ \E o \in PeekReads(amount) :
          Finish(Call("next_string", "string", FALSE, amount, o.after,
                      IF o.panic THEN Panicked
                      ELSE IF IsSome(o.got) /\ Utf8Valid(o.got[1])
                           THEN Returned(Some(from_utf8_lossy(o.got[1])))
                      ELSE Returned(None)))

\* fn next_string(&mut self, amount: usize) -> Option<String>
next_string(amount) ==
    /\ Ready
    /\ \E o \in PeekReads(amount) :
          Finish(Call("next_string", "string", FALSE, amount, o.after,
                      IF o.panic THEN Panicked
                      ELSE IF IsSome(o.got) THEN Returned(Some(from_utf8_lossy(o.got[1])))
                      ELSE Returned(None)))

\* shift_string built on next_slice instead of shift_slice
shift_string_peeking(amount) ==
    /\ Ready
    /\ \E o \in PeekReads(amount) :
          Finish(Call("shift_string", "string", FALSE, amount, o.after,
                      IF o.panic THEN Panicked
                      ELSE IF IsSome(o.got) THEN Returned(Some(from_utf8_lossy(o.got[1])))
                      ELSE Returned(None)))

\* fn shift_string(&mut self, amount: usize) -> Option<String>
shift_string(amount) ==
    /\ Ready
    /\ \E o \in ConsumeReads(amount) :
          Finish(Call("shift_string", "string", FALSE, amount, o.after,
                      IF o.panic THEN Panicked
                      ELSE IF IsSome(o.got) THEN Returned(Some(from_utf8_lossy(o.got[1])))
                      ELSE Returned(None)))

\* fn next_e<U: EndianNumber>(&mut self, bigendian: bool) -> Option<U>
next_e(ty, bigendian) ==
    /\ Ready
    /\ \E o \in PeekReads(size(ty)) :
          Finish(Call("next_e", ty, bigendian, size(ty), o.after,
                      IF o.panic THEN Panicked
                      ELSE IF IsSome(o.got) THEN Returned(from_bytes_e(ty, o.got[1], bigendian))
                      ELSE Returned(None)))

\* shift_e that seeks back after the read, as next_e does
shift_e_seeking_back(ty, bigendian) ==
    /\ Ready
    /\ \E o \in PeekReads(size(ty)) :
          Finish(Call("shift_e", ty, bigendian, size(ty), o.after,
                      IF o.panic THEN Panicked
                      ELSE IF IsSome(o.got) THEN Returned(from_bytes_e(ty, o.got[1], bigendian))
                      ELSE Returned(None)))

\* fn shift_e<U: EndianNumber>(&mut self, bigendian: bool) -> Option<U>
shift_e(ty, bigendian) ==
    /\ Ready
    /\ \E o \in ConsumeReads(size(ty)) :
          Finish(Call("shift_e", ty, bigendian, size(ty), o.after,
                      IF o.panic THEN Panicked
                      ELSE IF IsSome(o.got) THEN Returned(from_bytes_e(ty, o.got[1], bigendian))
                      ELSE Returned(None)))

InitReader ==
    /\ src \in Sources
    /\ pos \in 0..Len(src)
    /\ hist = <<>>
    /\ panicked = FALSE
    /\ codec = CodecIdle

\* codec calls on any input, or reader calls on a source whose seek never
\* fails once the read succeeded (a source in memory)
Init == InitCodec \/ (InitReader /\ faulty = FALSE)

\* the same, on any Read + Seek source: its seek may fail with an I/O error
InitIO == InitCodec \/ (InitReader /\ faulty \in BOOLEAN)

Next ==
    \/ \E ty \in Types : next(ty)
    \/ \E ty \in Types : shift(ty)
    \/ \E amount \in 0..MaxAmount : next_slice(amount)
    \/ \E amount \in 0..MaxAmount : shift_slice(amount)
    \/ \E amount \in 0..MaxAmount : next_string(amount)
    \/ \E amount \in 0..MaxAmount : shift_string(amount)
    \/ \E ty \in Types : \E bigendian \in BOOLEAN : next_e(ty, bigendian)
    \/ \E ty \in Types : \E bigendian \in BOOLEAN : shift_e(ty, bigendian)
    \/ Forget
    \/ Decode
    \/ Encode
    \/ Redecode

Spec == Init /\ [][Next]_vars

SpecIO == InitIO /\ [][Next]_vars

-----------------------------------------------------------------------------
(* Vocabulary of the properties *)

\* the most recent call, and the one before it
Last == hist[Len(hist)]

Prev == hist[1]

Called == Len(hist) >= 1

CalledTwice == Len(hist) = 2

IsPeek(c) == c.op \in {"next", "next_e", "next_slice", "next_string"}

IsConsume(c) == c.op \in {"shift", "shift_e", "shift_slice", "shift_string"}

\* the same operation with the same type, flag and length
SameCall(a, b) ==
    a.op = b.op /\ a.ty = b.ty /\ a.be = b.be /\ a.n = b.n

\* the call returned Some(..)
Succeeded(c) == ~c.out.panic /\ IsSome(c.out.res)

\* the call returned None
ReturnedNone(c) == c.out = Returned(None)

\* fewer than c.n bytes were left between the cursor and the end
ShortOf(c) == c.before + c.n > Len(src)

\* the bytes of the source that call c covers
RunOf(c) == SubSeq(src, c.before + 1, c.before + c.n)

-----------------------------------------------------------------------------
(* C1: calling the same peek twice in a row yields the same result both    *)
(* times and leaves the cursor where it was before the first call, for     *)
(* every source content and cursor position.                               *)
C1_PeekTwice ==
    (CalledTwice /\ IsPeek(Prev) /\ SameCall(Prev, Last)) =>
        /\ Last.out = Prev.out
        /\ Prev.after = Prev.before
        /\ Last.after = Prev.before
        /\ pos = Prev.before

(* C2: after a consume returned a value the cursor is exactly size() bytes *)
(* (for shift / shift_e) or exactly `amount` bytes (for shift_slice /      *)
(* shift_string) further than before the call.                             *)
C2_ConsumeAdvances ==
    (Called /\ IsConsume(Last) /\ Succeeded(Last)) =>
        /\ Last.op \in {"shift", "shift_e"} => Last.after = Last.before + size(Last.ty)
        /\ Last.op \in {"shift_slice", "shift_string"} => Last.after = Last.before + Last.n
        /\ pos = Last.after

\* a consume of each kind has returned a value and moved the cursor
C2_Witness ==
    /\ CalledTwice
    /\ Prev.op = "shift_e" /\ Prev.ty = "i32" /\ Succeeded(Prev)
    /\ Last.op = "shift_string" /\ Last.n = 5 /\ Succeeded(Last)
    /\ pos = 9

(* C3: when fewer bytes than required remain, every peek and consume       *)
(* returns None and leaves the cursor where it was before the call.        *)
C3_ShortReadKeepsCursor ==
    (Called /\ ShortOf(Last)) =>
        /\ ReturnedNone(Last)
        /\ Last.after = Last.before
        /\ pos = Last.before

(* C9: no peek or consume panics, whatever the source's I/O does: every    *)
(* call returns a value or None.                                           *)
C9_NoPanic ==
    /\ ~panicked
    /\ \A i \in 1..Len(hist) : ~hist[i].out.panic

-----------------------------------------------------------------------------
(* Vocabulary of the codec properties *)

Decoded == codec.step \in {"decoded", "encoded", "done"}

Encoded == codec.step \in {"encoded", "done"}

Done == codec.step = "done"

RECURSIVE Weighted(_)
\* d[1] * 256^(Len(d)-1) + ... + d[Len(d)]; the first digit may be negative
Weighted(d) ==
    IF Len(d) = 0 THEN 0
    ELSE 256 * Weighted(SubSeq(d, 1, Len(d) - 1)) + d[Len(d)]

\* the integer that the two's complement (or unsigned) digits msb denote
Denoted(ty, msb) ==
    IF IsSigned(ty) /\ msb[1] >= 128
    THEN Weighted(<<msb[1] - 256>> \o SubSeq(msb, 2, Len(msb)))
    ELSE Weighted(msb)

\* the integer denoted by msb fits the 32-bit integers of TLC
FitsInt(ty, msb) ==
    /\ ~IsFloat(ty)
    /\ Len(msb) <= 4
    /\ (Len(msb) = 4 /\ ~IsSigned(ty)) => msb[1] < 128

\* res is Some(v) with v the value whose bytes, most significant first, are
\* the run read in the order the flag names
ReadsInOrder(ty, run, bigendian, res) ==
    LET msb == IF bigendian THEN run ELSE Reverse(run)
    IN  /\ IsSome(res)
        /\ IF IsFloat(ty) THEN res[1].bits = msb
           ELSE /\ res[1].neg = (IsSigned(ty) /\ msb[1] >= 128)
                /\ res[1].mag = (IF res[1].neg THEN Negate(msb) ELSE msb)
        /\ FitsInt(ty, msb) => IntOf(res[1]) = Denoted(ty, msb)
        /\ (ty = "i32" /\ run = <<69, 96, 255, 255>>) =>
               IntOf(res[1]) = (IF bigendian THEN 1163984895 ELSE -40891)

-----------------------------------------------------------------------------
(* C4 as stated: for every type and value v, from_bytes(to_bytes(v)) ==    *)
(* Some(v), and from_bytes_e(to_bytes_e(v, e), e) == Some(v) for each e.   *)
C4_RoundTripEq ==
    Done =>
        /\ opt_eq(codec.ty, codec.back, codec.val)
        /\ \A e \in BOOLEAN : opt_eq(codec.ty, codec.back_e[e], codec.val)

(* C4 as amended: the round trips return Some of the very value encoded    *)
(* (bit for bit), which compares == to v for every v but a float NaN.      *)
C4_RoundTrip ==
    Done =>
        /\ IsSome(codec.val)
        /\ codec.back = codec.val
        /\ \A e \in BOOLEAN : codec.back_e[e] = codec.val
        /\ ~IsNaN(codec.ty, codec.val[1]) =>
              /\ opt_eq(codec.ty, codec.back, codec.val)
              /\ \A e \in BOOLEAN : opt_eq(codec.ty, codec.back_e[e], codec.val)

\* 22.4f64 went through to_bytes and from_bytes and came back equal
C4_Witness ==
    /\ Done
    /\ codec.ty = "f64"
    /\ codec.val = Some([bits |-> <<64, 54, 102, 102, 102, 102, 102, 102>>])
    /\ codec.enc = <<102, 102, 102, 102, 102, 102, 54, 64>>
    /\ opt_eq(codec.ty, codec.back, codec.val)

(* C5: from_bytes_e on a run of exactly size() bytes reads it most         *)
(* significant byte first when bigendian, least significant byte first     *)
(* otherwise; [69, 96, 255, 255] as i32 is -40891 little-endian and        *)
(* 1163984895 big-endian, and next_e / shift_e return the same values.     *)
C5_Endianness ==
    /\ (Decoded /\ Len(codec.bytes) = size(codec.ty)) =>
          \A e \in BOOLEAN :
              ReadsInOrder(codec.ty, codec.bytes, e, codec.dec_e[e])
    /\ \A i \in 1..Len(hist) :
          (hist[i].op \in {"next_e", "shift_e"} /\ ~ShortOf(hist[i])) =>
              /\ ~hist[i].out.panic
              /\ ReadsInOrder(hist[i].ty, RunOf(hist[i]), hist[i].be,
                              hist[i].out.res)

\* the documented session on [69, 96, 255, 255]: next_e(false), shift_e(true)
C5_Witness ==
    /\ CalledTwice
    /\ src = <<69, 96, 255, 255>>
    /\ Prev.op = "next_e" /\ Prev.ty = "i32" /\ ~Prev.be /\ Prev.before = 0
    /\ Succeeded(Prev) /\ IntOf(Prev.out.res[1]) = -40891
    /\ Last.op = "shift_e" /\ Last.ty = "i32" /\ Last.be /\ Last.before = 0
    /\ Succeeded(Last) /\ IntOf(Last.out.res[1]) = 1163984895

(* C6: from_bytes and from_bytes_e (either flag) yield None on a run       *)
(* shorter or longer than size(), and a value on a run of exactly size()   *)
(* bytes.                                                                  *)
C6_LengthSensitivity ==
    Decoded =>
        /\ IsSome(codec.dec) <=> (Len(codec.bytes) = size(codec.ty))
        /\ \A e \in BOOLEAN :
              IsSome(codec.dec_e[e]) <=> (Len(codec.bytes) = size(codec.ty))
        /\ Len(codec.bytes) # size(codec.ty) =>
              /\ codec.dec = None
              /\ \A e \in BOOLEAN : codec.dec_e[e] = None

\* u32::from_bytes(&[2, 4, 6]) was called and gave None
C6_Witness ==
    /\ Decoded
    /\ codec.ty = "u32"
    /\ codec.bytes = <<2, 4, 6>>
    /\ codec.dec = None
    /\ codec.dec_e[TRUE] = None

(* C7 as stated: from_bytes(b) == from_bytes_e(b, false) for every run b,  *)
(* to_bytes(v) == to_bytes_e(v, false) for every v, and next / shift       *)
(* return a result == to that of next_e(false) / shift_e(false) from the   *)
(* same source state.                                                      *)
C7_DefaultLittleEndianEq ==
    /\ Decoded => opt_eq(codec.ty, codec.dec, codec.dec_e[FALSE])
    /\ Encoded => codec.enc = codec.enc_e[FALSE]
    /\ (/\ CalledTwice
        /\ <<Prev.op, Last.op>> \in {<<"next", "next_e">>, <<"next_e", "next">>,
                                     <<"next", "shift_e">>, <<"next_e", "shift">>}
        /\ Prev.ty = Last.ty /\ ~Prev.be /\ ~Last.be
        /\ Last.before = Prev.before
        /\ ~Prev.out.panic /\ ~Last.out.panic) =>
           opt_eq(Last.ty, Prev.out.res, Last.out.res)

(* C7 as amended: the results are the same bit for bit (both None or both  *)
(* Some of the same value), and so compare == unless the value is a float  *)
(* NaN; to_bytes(v) == to_bytes_e(v, false).                               *)
C7_DefaultLittleEndian ==
    /\ Decoded =>
          /\ codec.dec = codec.dec_e[FALSE]
          /\ (IsSome(codec.dec) /\ ~IsNaN(codec.ty, codec.dec[1])) =>
                opt_eq(codec.ty, codec.dec, codec.dec_e[FALSE])
    /\ Encoded => codec.enc = codec.enc_e[FALSE]
    /\ (/\ CalledTwice
        /\ <<Prev.op, Last.op>> \in {<<"next", "next_e">>, <<"next_e", "next">>,
                                     <<"next", "shift_e">>, <<"next_e", "shift">>}
        /\ Prev.ty = Last.ty /\ ~Prev.be /\ ~Last.be
        /\ Last.before = Prev.before
        /\ ~Prev.out.panic /\ ~Last.out.panic) =>
           /\ Last.out.res = Prev.out.res
           /\ (IsSome(Last.out.res) /\ ~IsNaN(Last.ty, Last.out.res[1])) =>
                 opt_eq(Last.ty, Prev.out.res, Last.out.res)

\* next::<i32>() then shift_e::<i32>(false) on the documented source both
\* gave -40891
C7_Witness ==
    /\ CalledTwice
    /\ src = DocSource
    /\ Prev.op = "next" /\ Prev.ty = "i32" /\ Prev.before = 0
    /\ Last.op = "shift_e" /\ Last.ty = "i32" /\ ~Last.be /\ Last.before = 0
    /\ Succeeded(Prev) /\ Last.out = Prev.out
    /\ IntOf(Last.out.res[1]) = -40891

-----------------------------------------------------------------------------
(* C8: successive successful consumes return what is decoded from          *)
(* consecutive, non-overlapping byte ranges of the source, each starting   *)
(* where the one before ended; on the documented source shift::<i32>()     *)
(* gives -40891 and moves the cursor by 4, and shift_string(5) then gives  *)
(* "hello".                                                                *)

\* what a consume returns for the run it covers
ConsumeResult(c) ==
    CASE c.op = "shift" -> from_bytes(c.ty, RunOf(c))
      [] c.op = "shift_e" -> from_bytes_e(c.ty, RunOf(c), c.be)
      [] c.op = "shift_slice" -> Some(RunOf(c))
      [] c.op = "shift_string" -> Some(from_utf8_lossy(RunOf(c)))

C8_SequentialScan ==
    /\ \A i \in 1..Len(hist) :
          (IsConsume(hist[i]) /\ Succeeded(hist[i])) =>
              /\ hist[i].after = hist[i].before + hist[i].n
              /\ hist[i].after <= Len(src)
              /\ hist[i].out.res = ConsumeResult(hist[i])
    /\ (CalledTwice /\ IsConsume(Prev) /\ Succeeded(Prev)
           /\ IsConsume(Last) /\ Succeeded(Last)) =>
          /\ Last.before = Prev.after
          /\ Last.before = Prev.before + Prev.n
          /\ pos = Prev.before + Prev.n + Last.n
    /\ (CalledTwice /\ src = DocSource
           /\ Prev.op = "shift" /\ Prev.ty = "i32" /\ Prev.before = 0
           /\ Last.op = "shift_string" /\ Last.n = 5) =>
          /\ Succeeded(Prev) /\ IntOf(Prev.out.res[1]) = -40891
          /\ Prev.after = 4
          /\ Last.out.res = Some(<<104, 101, 108, 108, 111>>)
          /\ pos = 9

\* the documented scan has happened
C8_Witness ==
    /\ CalledTwice
    /\ src = DocSource
    /\ Prev.op = "shift" /\ Prev.ty = "i32" /\ Prev.before = 0
    /\ IntOf(Prev.out.res[1]) = -40891
    /\ Last.op = "shift_string" /\ Last.n = 5 /\ Last.before = 4
    /\ Last.out.res = Some(<<104, 101, 108, 108, 111>>)

-----------------------------------------------------------------------------
(* C10: for u8 and i8 the flag has no effect: from_bytes_e(b, true) ==     *)
(* from_bytes_e(b, false) for every run b and to_bytes_e(v, true) ==       *)
(* to_bytes_e(v, false) for every value v.                                 *)
C10_SingleByteFlag ==
    codec.ty \in {"u8", "i8"} =>
        /\ Decoded =>
              /\ opt_eq(codec.ty, codec.dec_e[TRUE], codec.dec_e[FALSE])
              /\ codec.dec_e[TRUE] = codec.dec
        /\ Encoded => codec.enc_e[TRUE] = codec.enc_e[FALSE]

\* a negative i8 was decoded and encoded under both flags
C10_Witness ==
    /\ Encoded
    /\ codec.ty = "i8"
    /\ codec.bytes = <<128>>
    /\ codec.dec_e[TRUE] = Some([neg |-> TRUE, mag |-> <<128>>])
    /\ codec.enc_e[TRUE] = <<128>>

-----------------------------------------------------------------------------
(* C11: to_bytes(v) and to_bytes_e(v, flag) always return exactly size()   *)
(* bytes, where size() is 1 for i8/u8, 2 for i16/u16, 4 for i32/u32/f32,   *)
(* 8 for i64/u64/f64 and 16 for i128/u128.                                 *)
C11_EncodedWidth ==
    /\ \A ty \in Types :
          size(ty) = (IF ty \in {"i8", "u8"} THEN 1
                      ELSE IF ty \in {"i16", "u16"} THEN 2
                      ELSE IF ty \in {"i32", "u32", "f32"} THEN 4
                      ELSE IF ty \in {"i64", "u64", "f64"} THEN 8
                      ELSE 16)
    /\ Encoded =>
          /\ Len(codec.enc) = size(codec.ty)
          /\ \A e \in BOOLEAN : Len(codec.enc_e[e]) = size(codec.ty)
          /\ \A i \in 1..Len(codec.enc) : codec.enc[i] \in 0..255
          /\ \A e \in BOOLEAN : \A i \in 1..Len(codec.enc_e[e]) :
                codec.enc_e[e][i] \in 0..255

\* a negative i128 was encoded into 16 bytes by to_bytes and by to_bytes_e
C11_Witness ==
    /\ Encoded
    /\ codec.ty = "i128"
    /\ codec.val[1].neg
    /\ Len(codec.enc) = 16
    /\ Len(codec.enc_e[TRUE]) = 16

-----------------------------------------------------------------------------
(* C12: next_string(n) / shift_string(n) return None exactly when          *)
(* next_slice(n) / shift_slice(n) return None from the same source state;  *)
(* once the bytes are read the lossy conversion never fails; the cursor    *)
(* moves as for the byte operation: unchanged after a peek that got its    *)
(* bytes, n further after a consume that got them.                         *)

\* where a read of c.n bytes from c.before can leave the cursor
CursorAfterRead(c) == {r.pos : r \in read_exact(src, c.before, c.n)}

C12_StringAsSlice ==
    /\ \A i \in 1..Len(hist) :
          (hist[i].op \in {"next_string", "shift_string"}
              /\ ~hist[i].out.panic) =>
             /\ IsSome(hist[i].out.res) <=> ~ShortOf(hist[i])
             /\ IsSome(hist[i].out.res) =>
                   /\ hist[i].out.res = Some(from_utf8_lossy(RunOf(hist[i])))
                   /\ hist[i].after =
                        (IF hist[i].op = "next_string" THEN hist[i].before
                         ELSE hist[i].before + hist[i].n)
             /\ ~IsSome(hist[i].out.res) => hist[i].after \in CursorAfterRead(hist[i])
    /\ (/\ CalledTwice
        /\ <<Prev.op, Last.op>> \in
              {<<"next_slice", "next_string">>, <<"next_string", "next_slice">>,
               <<"next_slice", "shift_string">>, <<"next_string", "shift_slice">>}
        /\ Prev.n = Last.n
        /\ Last.before = Prev.before
        /\ ~Prev.out.panic /\ ~Last.out.panic) =>
           /\ IsSome(Last.out.res) <=> IsSome(Prev.out.res)
           /\ (Prev.op = "next_slice" /\ IsSome(Prev.out.res)) =>
                 Last.out.res = Some(from_utf8_lossy(Prev.out.res[1]))
           /\ (Last.op = "next_slice" /\ IsSome(Last.out.res)) =>
                 Prev.out.res = Some(from_utf8_lossy(Last.out.res[1]))

\* five bytes with invalid sequences were peeked as bytes, then as text
C12_Witness ==
    /\ CalledTwice
    /\ src = WideSource
    /\ Prev.op = "next_slice" /\ Prev.n = 5 /\ Prev.before = 4
    /\ Prev.out.res = Some(<<195, 169, 255, 128, 226>>)
    /\ Last.op = "next_string" /\ Last.n = 5 /\ Last.before = 4
    /\ Last.out.res = Some(<<233, REPLACEMENT_CHARACTER, REPLACEMENT_CHARACTER,
                             REPLACEMENT_CHARACTER>>)
    /\ pos = 4

-----------------------------------------------------------------------------
(* C13: a consume returns exactly what the corresponding peek (same type,  *)
(* length and flag) returned when called immediately before it, and the    *)
(* peek changes neither what the consume returns nor where it leaves the   *)
(* cursor.                                                                 *)

\* the consume `c`, had it been called where the peek `p` before it was
Unpeeked(c, p) == [c EXCEPT !.before = p.before]

C13_PeekThenConsume ==
    (/\ CalledTwice
     /\ <<Prev.op, Last.op>> \in
           {<<"next", "shift">>, <<"next_e", "shift_e">>,
            <<"next_slice", "shift_slice">>}
     /\ Prev.ty = Last.ty /\ Prev.be = Last.be /\ Prev.n = Last.n
     /\ ~Prev.out.panic) =>
        /\ ~Last.out.panic
        /\ Last.out = Prev.out
        /\ Last.out.res =
              (IF ShortOf(Unpeeked(Last, Prev)) THEN None
               ELSE ConsumeResult(Unpeeked(Last, Prev)))
        /\ Last.after \in CursorAfterRead(Unpeeked(Last, Prev))
        /\ Succeeded(Prev) =>
              /\ Last.before = Prev.before
              /\ Last.after = Prev.before + Prev.n
        /\ pos = Last.after

\* next_e::<i32>(true) then shift_e::<i32>(true) on [69, 96, 255, 255]
C13_Witness ==
    /\ CalledTwice
    /\ src = <<69, 96, 255, 255>>
    /\ Prev.op = "next_e" /\ Prev.ty = "i32" /\ Prev.be /\ Prev.before = 0
    /\ Last.op = "shift_e" /\ Last.ty = "i32" /\ Last.be
    /\ Succeeded(Prev) /\ Last.out = Prev.out
    /\ IntOf(Last.out.res[1]) = 1163984895
    /\ pos = 4

====
